---- MODULE Spec2Model ----
(***************************************************************************)
(* Cross-repository relation analysis of deepwiki-open:                    *)
(*   src/api/repo_relations.py  (persistence, matchers, orchestrator)      *)
(*   src/api/admin.py           (the trigger endpoint and its task)        *)
(*                                                                         *)
(* Strings the code computes on (repository paths, dependency names) are   *)
(* sequences of one-character strings, so that lower(), split("/") and     *)
(* replace("-", "_") are computed and not assumed.  An optional value      *)
(* (Python None or a value v) is the sequence <<>> or <<v>>.               *)
(***************************************************************************)
EXTENDS Integers, Sequences, FiniteSets, TLC

VARIABLES
    ready,      \* asyncio ready queue: FIFO of tasks the loop will step
    hstate,     \* per request: state of the trigger_relation_analysis handler
    overlap,    \* per request: accepted while an earlier accepted run was unfinished
    rstate,     \* per request: position of its background task _run()
    status,     \* module global _analysis_status
    file,       \* content of RELATIONS_FILE on disk
    now,        \* wall clock read by datetime.now()
    locals,     \* per request: local variables of its analyze_all_relations call
    outcome,    \* per request: how its analyze_all_relations call ended
    loaded      \* what the latest load_relations call of a consumer returned

vars == <<ready, hstate, overlap, rstate, status, file, now, locals, outcome, loaded>>

(***************************************************************************)
(* Bounds of the model                                                     *)
(***************************************************************************)
MaxRequests == 2
MaxDeps == 2
MaxResp == 2

Requests == 1..MaxRequests

None == <<>>
Some(v) == <<v>>

(***************************************************************************)
(* Strings                                                                 *)
(***************************************************************************)
LowerChar(c) ==
    CASE c = "X" -> "x"
      [] c = "Y" -> "y"
      [] c = "F" -> "f"
      [] c = "S" -> "s"
      [] OTHER -> c

\* str.lower()
Lower(s) == [i \in 1..Len(s) |-> LowerChar(s[i])]

\* str.replace("-", "_")
ReplaceHyphen(s) == [i \in 1..Len(s) |-> IF s[i] = "-" THEN "_" ELSE s[i]]

\* s.split("/")[-1]: what follows the last "/", the whole string when there is none
LastSegment(s) ==
    LET slashes == {i \in 1..Len(s) : s[i] = "/"}
        start == IF slashes = {} THEN 1
                 ELSE (CHOOSE i \in slashes : \A j \in slashes : j <= i) + 1
    IN SubSeq(s, start, Len(s))

(***************************************************************************)
(* Python dicts as functions                                               *)
(***************************************************************************)
EmptyDict == <<>>
DictPut(d, k, v) == [x \in (DOMAIN d) \cup {k} |-> IF x = k THEN v ELSE d[x]]
\* d.get(k): None or the value
DictGet(d, k) == IF k \in DOMAIN d THEN Some(d[k]) ELSE None
Has(rel, k) == k \in DOMAIN rel

RECURSIVE SeqAll(_, _)
\* all sequences over S of length at most n
SeqAll(S, n) ==
    IF n = 0 THEN {<<>>}
    ELSE LET shorter == SeqAll(S, n - 1)
         IN shorter \cup {Append(q, e) : q \in {t \in shorter : Len(t) = n - 1}, e \in S}

(***************************************************************************)
(* Repositories, dependency names                                          *)
(***************************************************************************)
PathAX == <<"a", "/", "x">>
PathAY == <<"a", "/", "y">>
PathGhost == <<"g", "/", "q">>     \* a path no registry holds
Paths == {PathAX, PathAY}

DepNames == {<<"y">>, <<"Y">>, <<"o", "/", "x">>}

\* the repositories and names the matcher alone is run on: two repositories
\* with the same short name, one with an underscore in its name
PathBX == <<"b", "/", "x">>
PathAU == <<"a", "/", "x", "_", "y">>
MatcherPaths == {PathAX, PathAY, PathBX, PathAU}
MatcherDepNames == DepNames \cup {<<"x", "-", "y">>}

(***************************************************************************)
(* The indexed-project registry and the checkouts, as a run reads them.    *)
(* A registry is the dict get_all_indexed_projects() returns, in insertion *)
(* order: a sequence of entries with distinct paths.  An entry holds the   *)
(* metadata (meta = None stands for a JSON null where a dict is expected)  *)
(* and what scanning the checkout yields.                                  *)
(***************************************************************************)
Entry(p, st, ds, im) ==
    [path |-> p, meta |-> Some([status |-> st]), deps |-> ds, imports |-> im,
     summary |-> Some("desc"), tech_stack |-> <<"python">>]

BrokenEntry(p) ==
    [path |-> p, meta |-> None, deps |-> <<>>, imports |-> <<>>,
     summary |-> None, tech_stack |-> <<>>]

\* an indexed repository the wiki cache holds no summary for (_get_repo_summary gives None)
EntryNoSummary(p, ds, im) ==
    [path |-> p, meta |-> Some([status |-> "indexed"]), deps |-> ds, imports |-> im,
     summary |-> None, tech_stack |-> <<"python">>]

\* what scan_repo_imports finds in the checkout of p
ImportLists(p) == IF p = PathAX THEN {<<>>, <<"m">>} ELSE {<<>>}

EntriesOf(p) ==
    {Entry(p, "indexed", ds, im) : ds \in SeqAll(DepNames, MaxDeps), im \in ImportLists(p)}
    \cup {Entry(p, "error", ds, <<"m">>) : ds \in SeqAll(DepNames, 1)}
    \cup {BrokenEntry(p)}

AllEntries == UNION {EntriesOf(p) : p \in Paths}

\* every registry over Paths: a dict holds a path once
FusionRegistries ==
    {<<>>}
    \cup {<<e>> : e \in AllEntries}
    \cup {reg \in AllEntries \X AllEntries : reg[1].path # reg[2].path}

\* the registries the lifecycle specification draws from
LifecycleRegistries ==
    { <<>>,
      <<BrokenEntry(PathAX)>>,
      <<Entry(PathAY, "indexed", <<>>, <<>>)>>,
      <<Entry(PathAX, "indexed", <<<<"y">>>>, <<"m">>), Entry(PathAY, "indexed", <<>>, <<>>)>>,
      <<Entry(PathAX, "indexed", <<>>, <<>>), Entry(PathAY, "indexed", <<<<"o", "/", "x">>>>, <<>>)>>,
      <<EntryNoSummary(PathAX, <<>>, <<>>), EntryNoSummary(PathAY, <<>>, <<>>)>> }

(***************************************************************************)
(* _match_dependencies_to_repos (layer 1)                                  *)
(***************************************************************************)
RECURSIVE BuildNameToPath(_, _, _)
\* lines 567-574: later repositories overwrite earlier ones with the same name
BuildNameToPath(paths, i, d) ==
    IF i > Len(paths) THEN d
    ELSE LET path == paths[i]
             short_name == Lower(LastSegment(path))
             normalized == ReplaceHyphen(short_name)
         IN BuildNameToPath(paths, i + 1,
                DictPut(DictPut(d, short_name, path), normalized, path))

CodeEdge(repo_path, matched_path, dep) ==
    [from |-> repo_path, to |-> matched_path, type |-> "depends_on",
     description |-> <<"Code dependency: ">> \o dep]

RECURSIVE MatchDeps_NoSelfCheck(_, _, _, _)
\* the inner loop without the test matched_path != repo_path
MatchDeps_NoSelfCheck(name_to_path, repo_path, deps, j) ==
    IF j > Len(deps) THEN <<>>
    ELSE LET dep == deps[j]
             dep_lower == LastSegment(Lower(dep))
             dep_normalized == ReplaceHyphen(dep_lower)
             first == DictGet(name_to_path, dep_lower)
             matched == IF first # None /\ first[1] # <<>> THEN first
                        ELSE DictGet(name_to_path, dep_normalized)
             rest == MatchDeps_NoSelfCheck(name_to_path, repo_path, deps, j + 1)
         IN IF matched # None /\ matched[1] # <<>>
            THEN <<CodeEdge(repo_path, matched[1], dep)>> \o rest
            ELSE rest

RECURSIVE MatchDeps(_, _, _, _)
\* lines 577-587, the inner loop over one repository's dependencies
MatchDeps(name_to_path, repo_path, deps, j) ==
    IF j > Len(deps) THEN <<>>
    ELSE LET dep == deps[j]
             dep_lower == LastSegment(Lower(dep))
             dep_normalized == ReplaceHyphen(dep_lower)
             first == DictGet(name_to_path, dep_lower)
             matched == IF first # None /\ first[1] # <<>> THEN first
                        ELSE DictGet(name_to_path, dep_normalized)
             rest == MatchDeps(name_to_path, repo_path, deps, j + 1)
         IN IF matched # None /\ matched[1] # <<>> /\ matched[1] # repo_path
            THEN <<CodeEdge(repo_path, matched[1], dep)>> \o rest
            ELSE rest

RECURSIVE MatchRepos(_, _, _)
MatchRepos(name_to_path, repo_deps, i) ==
    IF i > Len(repo_deps) THEN <<>>
    ELSE MatchDeps(name_to_path, repo_deps[i].path, repo_deps[i].deps, 1)
         \o MatchRepos(name_to_path, repo_deps, i + 1)

\* repos_info: sequence of info records (dict in insertion order);
\* repo_deps: sequence of [path, deps] (dict in insertion order)
_match_dependencies_to_repos(repos_info, repo_deps) ==
    LET name_to_path ==
            BuildNameToPath([i \in 1..Len(repos_info) |-> repos_info[i].path], 1, EmptyDict)
    IN MatchRepos(name_to_path, repo_deps, 1)

(***************************************************************************)
(* What an LLM call gives back, after the JSON parse of lines 491-498 and  *)
(* 649-657: an exception (transport error, unparseable text), a JSON value *)
(* that is not a list, or a list.  A list element that is not a dict is a  *)
(* record with the one field "scalar"; a dict is a record of its keys.     *)
(***************************************************************************)
Raised == [kind |-> "raise"]
NotList == [kind |-> "notlist"]
ListOf(items) == [kind |-> "list", items |-> items]

Rel(f, t, ty) == [from |-> f, to |-> t, type |-> ty, description |-> <<"d">>]
RelC(f, t, ty, c) ==
    [from |-> f, to |-> t, type |-> ty, description |-> <<"d">>, confidence |-> c]
Scalar == [scalar |-> "s"]

ImportRels ==
    { RelC(PathAX, PathAY, "depends_on", "high"),
      RelC(PathAY, PathAX, "depends_on", "high"),
      RelC(PathAY, PathAX, "depends_on", "medium"),
      RelC(PathGhost, PathAX, "depends_on", "high"),
      RelC(PathAX, PathAY, "depends_on", "low") }

SemanticRels ==
    { Rel(PathAX, PathAY, "related"),
      Rel(PathAY, PathAX, "upstream"),
      RelC(PathAX, PathAY, "downstream", "high"),
      Rel(PathAX, PathGhost, "related"),
      Rel(PathAX, PathAY, "depends_on") }

Responses(rels) == {Raised, NotList} \cup {ListOf(q) : q \in SeqAll(rels, MaxResp)}

FusionImportResponses == Responses(ImportRels)
FusionSemanticResponses == Responses(SemanticRels)

LifecycleImportResponses ==
    {Raised, ListOf(<<RelC(PathAY, PathAX, "depends_on", "medium")>>)}
LifecycleSemanticResponses ==
    {Raised, ListOf(<<>>), ListOf(<<Rel(PathAY, PathAX, "related")>>)}

IsDict(rel) == ~ Has(rel, "scalar")

\* a JSON array where the prompt asks for a string: a Python list, unhashable
ListValue == <<"[", "]">>

\* the tests "rel.get("from") in valid_paths and rel.get("to") in valid_paths"
\* raise TypeError: valid_paths is a set, a list cannot be hashed; "to" is
\* looked up only when "from" is a known path
RaisesTypeError(rel, valid_paths) ==
    /\ IsDict(rel)
    /\ Has(rel, "from")
    /\ \/ rel.from = ListValue
       \/ rel.from \in valid_paths /\ Has(rel, "to") /\ rel.to = ListValue

ValidPaths(repos_info_list) == {repos_info_list[i].path : i \in 1..Len(repos_info_list)}

(***************************************************************************)
(* _analyze_import_relations (layer 2): validation of one batch response   *)
(***************************************************************************)
\* the validation without the tests of from and to against valid_paths
ImportRelValid_AnyPath(rel, valid_paths) ==
    /\ IsDict(rel)
    /\ Has(rel, "from") /\ Has(rel, "to")
    /\ rel.from # rel.to
    /\ Has(rel, "confidence") /\ rel.confidence \in {"high", "medium"}

ImportRelValid(rel, valid_paths) ==
    /\ IsDict(rel)
    /\ Has(rel, "from") /\ rel.from \in valid_paths
    /\ Has(rel, "to") /\ rel.to \in valid_paths
    /\ rel.from # rel.to
    /\ Has(rel, "confidence") /\ rel.confidence \in {"high", "medium"}

\* the edge keeps the type the model answered
ImportEdge_KeepsType(rel) ==
    [from |-> rel.from, to |-> rel.to, type |-> rel.type,
     description |-> <<"Import analysis: ">>
                     \o (IF Has(rel, "description") THEN rel.description ELSE <<>>),
     confidence |-> rel.confidence]

ImportEdge(rel) ==
    [from |-> rel.from, to |-> rel.to,
     type |-> IF rel.confidence = "high" THEN "depends_on" ELSE "likely_depends_on",
     description |-> <<"Import analysis: ">>
                     \o (IF Has(rel, "description") THEN rel.description ELSE <<>>),
     confidence |-> rel.confidence]

RECURSIVE ImportBatchEdges(_, _, _)
ImportBatchEdges(relations, valid_paths, i) ==
    IF i > Len(relations) THEN <<>>
    \* the except of line 521 ends the batch; what was appended stays
    ELSE IF RaisesTypeError(relations[i], valid_paths) THEN <<>>
    ELSE (IF ImportRelValid(relations[i], valid_paths)
          THEN <<ImportEdge(relations[i])>> ELSE <<>>)
         \o ImportBatchEdges(relations, valid_paths, i + 1)

\* the edges one batch adds to all_edges, lines 498-522
ImportBatchResult(resp, repos_info_list) ==
    IF resp.kind = "list"
    THEN ImportBatchEdges(resp.items, ValidPaths(repos_info_list), 1)
    ELSE <<>>

BATCH_SIZE == 30

\* repo_keys, line 428 and 444: the repositories with a non-empty import list
RECURSIVE RepoKeys(_, _)
RepoKeys(repos_imports, i) ==
    IF i > Len(repos_imports) THEN <<>>
    ELSE (IF repos_imports[i].imports # <<>> THEN <<repos_imports[i].path>> ELSE <<>>)
         \o RepoKeys(repos_imports, i + 1)

(***************************************************************************)
(* _analyze_semantic_relations (layer 3): validation of the response       *)
(***************************************************************************)
SemanticTypes == {"provides_api_for", "shares_protocol", "upstream", "downstream", "related"}

\* the validation without the test of the type
SemanticRelValid_AnyType(rel, valid_paths) ==
    /\ IsDict(rel)
    /\ Has(rel, "from") /\ rel.from \in valid_paths
    /\ Has(rel, "to") /\ rel.to \in valid_paths
    /\ rel.from # rel.to

SemanticRelValid(rel, valid_paths) ==
    /\ IsDict(rel)
    /\ Has(rel, "from") /\ rel.from \in valid_paths
    /\ Has(rel, "to") /\ rel.to \in valid_paths
    /\ rel.from # rel.to
    /\ Has(rel, "type") /\ rel.type \in SemanticTypes

RECURSIVE SemanticEdges(_, _, _)
SemanticEdges(relations, valid_paths, i) ==
    IF i > Len(relations) THEN <<>>
    ELSE (IF SemanticRelValid(relations[i], valid_paths) THEN <<relations[i]>> ELSE <<>>)
         \o SemanticEdges(relations, valid_paths, i + 1)

\* lines 657-684
SemanticResult(resp, repos_info) ==
    IF resp.kind = "list"
    THEN IF \E i \in 1..Len(resp.items) : RaisesTypeError(resp.items[i], ValidPaths(repos_info))
         THEN <<>>      \* the except of line 682: the list "valid" is dropped
         ELSE SemanticEdges(resp.items, ValidPaths(repos_info), 1)
    ELSE <<>>

\* the call ends in the except clause of line 521 or 682, which logs the error
LogsError(resp, repos_info) ==
    \/ resp.kind = "raise"
    \/ /\ resp.kind = "list"
       /\ \E i \in 1..Len(resp.items) : RaisesTypeError(resp.items[i], ValidPaths(repos_info))

(***************************************************************************)
(* analyze_all_relations, step 6: merge with priority, related lists       *)
(***************************************************************************)
RECURSIVE MergeLayer(_, _, _)
\* one "for edge in ..." loop of lines 816-836; acc = [seen_pairs, all_edges]
MergeLayer(acc, edges, i) ==
    IF i > Len(edges) THEN acc
    ELSE LET edge == edges[i]
             pair == <<edge.from, edge.to>>
         IN IF pair \notin acc.seen_pairs
            THEN MergeLayer([seen_pairs |-> acc.seen_pairs \cup {pair},
                             all_edges |-> Append(acc.all_edges, edge)], edges, i + 1)
            ELSE MergeLayer(acc, edges, i + 1)

\* e.get("confidence") == c
ConfidenceIs(e, c) == Has(e, "confidence") /\ e.confidence = c

PairsOf(edges) == {<<edges[i].from, edges[i].to>> : i \in 1..Len(edges)}

\* the layers merged in the opposite order: semantic edges claim their pairs first
MergeEdges_SemanticFirst(code_edges, import_edges, semantic_edges) ==
    LET start == [seen_pairs |-> {}, all_edges |-> <<>>]
        l3 == MergeLayer(start, semantic_edges, 1)
        l2 == MergeLayer(l3, import_edges, 1)
        l1 == MergeLayer(l2, code_edges, 1)
    IN l1.all_edges

\* seen_pairs kept across runs: it starts from the pairs of the persisted graph
MergeEdges_StickySeen(code_edges, import_edges, semantic_edges) ==
    LET kept == IF file.kind = "json" THEN PairsOf(file.data.edges) ELSE {}
        start == [seen_pairs |-> kept, all_edges |-> <<>>]
        l1 == MergeLayer(start, code_edges, 1)
        l2 == MergeLayer(l1, import_edges, 1)
        l3 == MergeLayer(l2, semantic_edges, 1)
    IN l3.all_edges

MergeEdges(code_edges, import_edges, semantic_edges) ==
    LET start == [seen_pairs |-> {}, all_edges |-> <<>>]
        l1 == MergeLayer(start, code_edges, 1)
        IsHigh(e) == ConfidenceIs(e, "high")
        IsMedium(e) == ConfidenceIs(e, "medium")
        import_high == SelectSeq(import_edges, IsHigh)
        import_medium == SelectSeq(import_edges, IsMedium)
        l2 == MergeLayer(l1, import_high \o import_medium, 1)
        l3 == MergeLayer(l2, semantic_edges, 1)
    IN l3.all_edges

\* repos_info[p]["related"].append(q) unless q is already there
AddRelated(repos_info, p, q) ==
    [i \in 1..Len(repos_info) |->
        IF repos_info[i].path = p
           /\ \A k \in 1..Len(repos_info[i].related) : repos_info[i].related[k] # q
        THEN [repos_info[i] EXCEPT !.related = Append(@, q)]
        ELSE repos_info[i]]

RECURSIVE UpdateRelated(_, _, _)
\* lines 839-845
UpdateRelated(repos_info, all_edges, i) ==
    IF i > Len(all_edges) THEN repos_info
    ELSE LET src == all_edges[i].from
             dst == all_edges[i].to
         IN UpdateRelated(AddRelated(AddRelated(repos_info, src, dst), dst, src),
                          all_edges, i + 1)

(***************************************************************************)
(* Persistence: RELATIONS_FILE holds nothing, a complete JSON document, or *)
(* text that is no JSON document (open(.., "w") truncated it and the dump   *)
(* has not completed).  The documents written hold only dicts with string  *)
(* keys, lists, strings and null, which json.dump / json.load give back    *)
(* unchanged.                                                              *)
(***************************************************************************)
Absent == [kind |-> "absent"]
Torn == [kind |-> "torn"]
Json(data) == [kind |-> "json", data |-> data]

EmptyGraph == [analyzed_at |-> None, repos |-> <<>>, edges |-> <<>>]

\* lines 38-48: a missing file and a file json.load rejects both give the empty structure
load_relations(f) == IF f.kind = "json" THEN f.data ELSE EmptyGraph

\* lines 865-869: load_relations().get("repos", {}).get(repo_path, {}).get("related", [])
get_related_repos(f, repo_path) ==
    LET repos == load_relations(f).repos
        found == {i \in 1..Len(repos) : repos[i].path = repo_path}
    IN IF found = {} THEN <<>> ELSE repos[CHOOSE i \in found : TRUE].related

\* what save_relations can do, lines 51-57: _ensure_dir raises (outside the
\* try); open raises (caught, logged); open truncates the file and the dump
\* then completes or raises (caught, logged)
SaveOutcomes == {"mkdir_fails", "open_fails", "opened"}

(***************************************************************************)
(* generate_mermaid_graph.  The text it returns is "\n".join(lines): the   *)
(* model keeps the sequence of lines, a line being the sequence of the     *)
(* pieces the f-string puts together.                                      *)
(***************************************************************************)
\* the characters of the model's strings in code point order, the order
\* Python compares str by
CodePoints == <<"-", ".", "/", "F", "S", "X", "Y", "[", "]", "_", "a", "b", "e", "f", "g",
                "i", "j", "m", "o", "q", "r", "s", "t", "v", "x", "y">>
CharRank(c) == CHOOSE i \in 1..Len(CodePoints) : CodePoints[i] = c

\* s < t for two str
LexLess(s, t) ==
    \E k \in 1..(Len(s) + 1) :
        /\ k <= Len(t)
        /\ \A m \in 1..(k - 1) : s[m] = t[m]
        /\ k = Len(s) + 1 \/ CharRank(s[k]) < CharRank(t[k])

RECURSIVE sorted_Descending(_)
\* the strings in descending order
sorted_Descending(S) ==
    IF S = {} THEN <<>>
    ELSE LET top == CHOOSE x \in S : \A y \in S \ {x} : LexLess(y, x)
         IN <<top>> \o sorted_Descending(S \ {top})

RECURSIVE sorted(_)
\* sorted(S) for a set of str
sorted(S) ==
    IF S = {} THEN <<>>
    ELSE LET least == CHOOSE x \in S : \A y \in S \ {x} : LexLess(x, y)
         IN <<least>> \o sorted(S \ {least})

\* lines 898-906 and the default of line 912
edge_styles(type) ==
    CASE type = "depends_on" -> "-->"
      [] type = "likely_depends_on" -> "-.->"
      [] type = "provides_api_for" -> "-.->"
      [] type = "shares_protocol" -> "<-->"
      [] type = "upstream" -> "-->"
      [] type = "downstream" -> "-->"
      [] type = "related" -> "---"
      [] OTHER -> "-->"

\* edge["type"].replace("_", " ") for the types of the model
TypeLabel(type) ==
    CASE type = "depends_on" -> "depends on"
      [] type = "likely_depends_on" -> "likely depends on"
      [] type = "provides_api_for" -> "provides api for"
      [] type = "shares_protocol" -> "shares protocol"
      [] OTHER -> type

\* line 892: f"N{i}"
SafeId(i) == <<"N", ToString(i)>>

\* line 895, for the i-th node (from 0) of the sorted nodes
NodeLine(i, node) == <<"  ">> \o SafeId(i) \o <<"[\"">> \o LastSegment(node) \o <<"\"]">>

\* line 914
EdgeLine(src_id, arrow, label, dst_id) ==
    <<"  ">> \o src_id \o <<" ", arrow, "|", label, "| ">> \o dst_id

RECURSIVE EdgeLines_DropsRepeats(_, _, _)
\* an edge equal to an earlier edge of the list gets no line
EdgeLines_DropsRepeats(edges, node_ids, i) ==
    IF i > Len(edges) THEN <<>>
    ELSE (IF \E k \in 1..(i - 1) : edges[k] = edges[i] THEN <<>>
          ELSE <<EdgeLine(node_ids[edges[i].from], edge_styles(edges[i].type),
                          TypeLabel(edges[i].type), node_ids[edges[i].to])>>)
         \o EdgeLines_DropsRepeats(edges, node_ids, i + 1)

RECURSIVE EdgeLines(_, _, _)
\* lines 908-914; node_ids holds every endpoint, so src_id and dst_id are never ""
EdgeLines(edges, node_ids, i) ==
    IF i > Len(edges) THEN <<>>
    ELSE <<EdgeLine(node_ids[edges[i].from], edge_styles(edges[i].type),
                    TypeLabel(edges[i].type), node_ids[edges[i].to])>>
         \o EdgeLines(edges, node_ids, i + 1)

Placeholder == << <<"graph LR">>, <<"  A[No relationships found]">> >>

\* data: None (the graph is loaded from the file) or a dict
generate_mermaid_graph(data) ==
    LET d == IF data = None THEN load_relations(file) ELSE data[1]
        edges == IF Has(d, "edges") THEN d.edges ELSE <<>>
        nodes == {edges[i].from : i \in 1..Len(edges)} \cup {edges[i].to : i \in 1..Len(edges)}
        order == sorted(nodes)
        node_ids == [n \in nodes |-> SafeId((CHOOSE i \in 1..Len(order) : order[i] = n) - 1)]
    IN IF edges = <<>> THEN Placeholder
       ELSE << <<"graph LR">> >>
            \o [i \in 1..Len(order) |-> NodeLine(i - 1, order[i])]
            \o EdgeLines(edges, node_ids, 1)

(***************************************************************************)
(* scan_repo_imports and _filter_imports.  The import names of the model   *)
(* are os, re, fs, FS, io/fs, java.x and x; each vocabulary below is the   *)
(* source's set restricted to what the filter can look up for these names. *)
(***************************************************************************)
NameOs == <<"o", "s">>
NameRe == <<"r", "e">>
NameFs == <<"f", "s">>
NameFS == <<"F", "S">>
NameIoFs == <<"i", "o", "/", "f", "s">>
NameJavaX == <<"j", "a", "v", "a", ".", "x">>
NameX == <<"x">>
ScanNames == {NameOs, NameRe, NameFs, NameFS, NameIoFs, NameJavaX, NameX}

\* lines 217-236: holds "os" and "re", not "fs"
_PYTHON_STDLIB == {NameOs, NameRe}
\* lines 238-255: holds "os" and "fs", not "re"
_JS_COMMON_PACKAGES == {NameOs, NameFs}
\* lines 257-268: holds "os" and "io/fs"
_GO_STDLIB == {NameOs, NameIoFs}
\* the prefixes of lines 371-373 a name of the model can start with
GoPrefixes == {<<"f", "m", "t">>, <<"o", "s", "/">>, <<"i", "o", "/">>}
\* lines 270-275
_JAVA_STDLIB_PREFIXES == {<<"j", "a", "v", "a", ".">>}

\* str.startswith
StartsWith(s, prefix) == Len(prefix) <= Len(s) /\ SubSeq(s, 1, Len(prefix)) = prefix

\* lines 362-377
_filter_imports(imports, ext) ==
    IF ext = ".py" THEN imports \ _PYTHON_STDLIB
    ELSE IF ext \in {".js", ".ts", ".jsx", ".tsx"}
    THEN {i \in imports : /\ LastSegment(Lower(i)) \notin _JS_COMMON_PACKAGES
                          /\ Lower(i) \notin _JS_COMMON_PACKAGES}
    ELSE IF ext = ".go"
    THEN {i \in imports : /\ i \notin _GO_STDLIB
                          /\ ~ \E q \in GoPrefixes : StartsWith(i, q)}
    ELSE IF ext = ".java"
    THEN {i \in imports : ~ \E q \in _JAVA_STDLIB_PREFIXES : StartsWith(i, q)}
    ELSE imports

\* lines 385-409; source_files: the files found, each with its extension and
\* the set its extractor returns
scan_repo_imports(source_files) ==
    sorted(UNION {_filter_imports(source_files[k].raw_imports, source_files[k].ext) :
                     k \in 1..Len(source_files)})

(***************************************************************************)
(* _analysis_status                                                        *)
(***************************************************************************)
Progress(text) == [text |-> text]
ProgressN(text, n) == [text |-> text, n |-> n]

IdleStatus == [running |-> FALSE, progress |-> Progress(""), error |-> None]
\* line 719
StartStatus == [running |-> TRUE, progress |-> Progress("Starting analysis..."), error |-> None]
\* the guard of line 716 left out
GuardPasses_Missing(st) == TRUE
\* line 716
GuardPasses(st) == ~ st.running
\* the exception path without the finally clause
StatusOnRaise_NoFinally(st, msg) == [st EXCEPT !.error = Some(msg)]
\* lines 857-862: except records the message, finally clears the flag
StatusOnRaise(st, msg) == [st EXCEPT !.error = Some(msg), !.running = FALSE]
\* line 862 on the return path
StatusOnReturn(st) == [st EXCEPT !.running = FALSE]

(***************************************************************************)
(* Tasks of the event loop                                                 *)
(***************************************************************************)
Task(kind, r) == [kind |-> kind, id |-> r]
InReady(t) == \E i \in 1..Len(ready) : ready[i] = t
AtHead(t) == ready # <<>> /\ Head(ready) = t

\* _run() exists and analyze_all_relations has not ended
Unfinished == {"created", "await_import", "await_semantic", "saving"}
\* analyze_all_relations has passed the guard and has not ended
InFlight == {"await_import", "await_semantic", "saving"}
\* the loop thread is not inside a synchronous section
LoopIdle == \A q \in Requests : rstate[q] # "saving"

NoLocals == [live |-> FALSE]
NoOutcome == [kind |-> "none"]
Rejected == [kind |-> "rejected"]
RaisedWith(msg) == [kind |-> "raised", msg |-> msg]
Returned(loc, result) ==
    [kind |-> "returned", code_edges |-> loc.code_edges, import_edges |-> loc.import_edges,
     semantic_edges |-> loc.semantic_edges, result |-> result,
     indexed |-> loc.indexed, llm_errors |-> loc.llm_errors,
     repo_keys |-> loc.repo_keys, batches |-> loc.batches]

Init ==
    /\ ready = <<>>
    /\ hstate = [r \in Requests |-> "new"]
    /\ overlap = [r \in Requests |-> FALSE]
    /\ rstate = [r \in Requests |-> "none"]
    /\ status = IdleStatus
    /\ file = Absent
    /\ now = 1
    /\ locals = [r \in Requests |-> NoLocals]
    /\ outcome = [r \in Requests |-> NoOutcome]
    /\ loaded = [val |-> EmptyGraph, old |-> EmptyGraph, new |-> EmptyGraph]

(***************************************************************************)
(* An HTTP request to POST /repo-relations/analyze reaches its handler     *)
(***************************************************************************)
Arrive(r) ==
    /\ hstate[r] = "new"
    /\ \A q \in Requests : q < r => hstate[q] # "new"
    /\ LoopIdle
    /\ hstate' = [hstate EXCEPT ![r] = "queued"]
    /\ ready' = Append(ready, Task("handler", r))
    /\ UNCHANGED <<overlap, rstate, status, file, now, locals, outcome, loaded>>

(***************************************************************************)
(* trigger_relation_analysis, admin.py 725-749: one step of the loop       *)
(***************************************************************************)
trigger_relation_analysis(r) ==
    /\ AtHead(Task("handler", r))
    /\ LoopIdle
    /\ IF status.running
       THEN /\ hstate' = [hstate EXCEPT ![r] = "conflict"]
            /\ ready' = Tail(ready)
            /\ UNCHANGED <<overlap, rstate>>
       ELSE /\ hstate' = [hstate EXCEPT ![r] = "accepted"]
            /\ overlap' = [overlap EXCEPT ![r] = \E q \in Requests : rstate[q] \in Unfinished]
            /\ rstate' = [rstate EXCEPT ![r] = "created"]
            /\ ready' = Append(Tail(ready), Task("run", r))
    /\ UNCHANGED <<status, file, now, locals, outcome, loaded>>

(***************************************************************************)
(* analyze_all_relations: the parts between two awaits                     *)
(***************************************************************************)
\* the run ends with an exception no handler inside the try caught
EndRaised(r, st, msg) ==
    /\ status' = StatusOnRaise(st, msg)
    /\ rstate' = [rstate EXCEPT ![r] = "raised"]
    /\ outcome' = [outcome EXCEPT ![r] = RaisedWith(msg)]
    /\ locals' = [locals EXCEPT ![r] = NoLocals]

EndReturned(r, st, loc, result) ==
    /\ status' = StatusOnReturn(st)
    /\ rstate' = [rstate EXCEPT ![r] = "returned"]
    /\ outcome' = [outcome EXCEPT ![r] = Returned(loc, result)]
    /\ locals' = [locals EXCEPT ![r] = NoLocals]

\* save_relations(result) up to the open, and what follows when nothing was opened;
\* final is the progress the code sets after the save (None: it sets none)
BeginSave(r, st, loc, result, final, saves) ==
    LET done == IF final = None THEN st ELSE [st EXCEPT !.progress = final[1]]
    IN \E o \in saves :
        CASE o = "mkdir_fails" ->
                /\ EndRaised(r, st, "OSError")
                /\ file' = file
          [] o = "open_fails" ->
                /\ EndReturned(r, done, loc, result)
                /\ file' = file
          [] o = "opened" ->
                /\ file' = Torn
                /\ status' = st
                /\ rstate' = [rstate EXCEPT ![r] = "saving"]
                /\ locals' = [locals EXCEPT ![r] =
                                 [loc EXCEPT !.result = Some(result), !.final = final]]
                /\ outcome' = outcome

\* the progress "Analysis complete" is set before save_relations is called
MergeAndSave_CompleteBeforeSave(r, st, loc, saves) ==
    LET all_edges == MergeEdges(loc.code_edges, loc.import_edges, loc.semantic_edges)
        st1 == [st EXCEPT !.progress =
                   ProgressN("Analysis complete. Found relationships: ", Len(all_edges))]
        repos_info == UpdateRelated(loc.repos_info, all_edges, 1)
        result == [analyzed_at |-> Some(now), repos |-> repos_info, edges |-> all_edges]
    IN /\ now' = now + 1
       /\ BeginSave(r, st1, loc, result, None, saves)

\* lines 809-855
MergeAndSave(r, st, loc, saves) ==
    LET st1 == [st EXCEPT !.progress = Progress("Merging results...")]
        all_edges == MergeEdges(loc.code_edges, loc.import_edges, loc.semantic_edges)
        repos_info == UpdateRelated(loc.repos_info, all_edges, 1)
        result == [analyzed_at |-> Some(now), repos |-> repos_info, edges |-> all_edges]
    IN /\ now' = now + 1
       /\ BeginSave(r, st1, loc, result,
                    Some(ProgressN("Analysis complete. Found relationships: ", Len(all_edges))),
                    saves)

\* the layers gathered so far are written to the file before the semantic call
EnterSemantic_SavesPartial(r, st, loc) ==
    /\ status' = [st EXCEPT !.progress = Progress("Running LLM semantic analysis...")]
    /\ rstate' = [rstate EXCEPT ![r] = "await_semantic"]
    /\ locals' = [locals EXCEPT ![r] = loc]
    /\ file' = Json([analyzed_at |-> None, repos |-> loc.repos_info,
                     edges |-> MergeEdges(loc.code_edges, loc.import_edges, <<>>)])
    /\ UNCHANGED <<now, outcome>>

\* lines 797-807 up to the await inside _analyze_semantic_relations
EnterSemantic(r, st, loc) ==
    /\ status' = [st EXCEPT !.progress = Progress("Running LLM semantic analysis...")]
    /\ rstate' = [rstate EXCEPT ![r] = "await_semantic"]
    /\ locals' = [locals EXCEPT ![r] = loc]
    /\ UNCHANGED <<file, now, outcome>>

\* lines 785-795 up to the first await inside _analyze_import_relations
EnterImport(r, st, loc) ==
    LET st1 == [st EXCEPT !.progress = Progress("Analyzing import statements with LLM...")]
    IN IF loc.repo_keys = <<>> \/ Len(loc.repos_info) < 2
       THEN EnterSemantic(r, st1, loc)
       ELSE /\ status' = st1
            /\ rstate' = [rstate EXCEPT ![r] = "await_import"]
            /\ locals' = [locals EXCEPT ![r] = loc]
            /\ UNCHANGED <<file, now, outcome>>

\* every entry with metadata participates, whatever its status
Indexed_AnyStatus(e) == TRUE
\* line 740
Indexed(e) == e.meta[1].status = "indexed"

\* the related list of path p in the persisted graph, empty when there is none
PersistedRelated(p) ==
    IF file.kind = "json" /\ \E i \in 1..Len(file.data.repos) : file.data.repos[i].path = p
    THEN file.data.repos[CHOOSE i \in 1..Len(file.data.repos) : file.data.repos[i].path = p].related
    ELSE <<>>

\* the related list starts from the one of the persisted graph
InfoOf_KeepsRelated(e) ==
    [path |-> e.path, summary |-> IF e.summary = None THEN "" ELSE e.summary[1],
     tech_stack |-> e.tech_stack, related |-> PersistedRelated(e.path)]

\* lines 767-772
InfoOf(e) ==
    [path |-> e.path, summary |-> IF e.summary = None THEN "" ELSE e.summary[1],
     tech_stack |-> e.tech_stack, related |-> <<>>]

\* an empty registry ends the run at once, without the save of line 728
StartRun_EmptySkipsSave(r, reg, saves) ==
    LET broken == \E i \in 1..Len(reg) : reg[i].meta = None
        IsIndexed(e) == Indexed(e)
        eligible == IF broken THEN <<>> ELSE SelectSeq(reg, IsIndexed)
        repos_info == [i \in 1..Len(eligible) |-> InfoOf(eligible[i])]
        code_edges == _match_dependencies_to_repos(repos_info, eligible)
        indexed == [i \in 1..Len(reg) |-> [path |-> reg[i].path, meta |-> reg[i].meta]]
        loc == [live |-> TRUE, file0 |-> file, indexed |-> indexed, llm_errors |-> 0,
                batches |-> <<>>,
                repos_info |-> repos_info,
                repo_keys |-> RepoKeys(eligible, 1), batch_start |-> 0,
                code_edges |-> code_edges, import_edges |-> <<>>,
                semantic_edges |-> <<>>, result |-> None, final |-> None]
        scanning == [StartStatus EXCEPT !.progress = ProgressN("Scanning repositories: ", Len(reg))]
        matching == [StartStatus EXCEPT !.progress = Progress("Matching code dependencies...")]
    IN IF reg = <<>>
       THEN /\ now' = now + 1
            /\ file' = file
            /\ EndReturned(r, [StartStatus EXCEPT !.progress = Progress("No indexed projects found")],
                           loc, [analyzed_at |-> Some(now), repos |-> <<>>, edges |-> <<>>])
       ELSE IF broken
       THEN /\ EndRaised(r, scanning, "AttributeError")
            /\ UNCHANGED <<file, now>>
       ELSE IF Len(repos_info) >= 2
       THEN EnterImport(r, matching, loc)
       ELSE MergeAndSave(r, matching, loc, saves)

\* a run that finds no repository to analyze returns without calling save_relations
StartRun_NothingEligibleKeepsFile(r, reg, saves) ==
    LET broken == \E i \in 1..Len(reg) : reg[i].meta = None
        IsIndexed(e) == Indexed(e)
        eligible == IF broken THEN <<>> ELSE SelectSeq(reg, IsIndexed)
        repos_info == [i \in 1..Len(eligible) |-> InfoOf(eligible[i])]
        code_edges == _match_dependencies_to_repos(repos_info, eligible)
        indexed == [i \in 1..Len(reg) |-> [path |-> reg[i].path, meta |-> reg[i].meta]]
        loc == [live |-> TRUE, file0 |-> file, indexed |-> indexed, llm_errors |-> 0,
                batches |-> <<>>,
                repos_info |-> repos_info,
                repo_keys |-> RepoKeys(eligible, 1), batch_start |-> 0,
                code_edges |-> code_edges, import_edges |-> <<>>,
                semantic_edges |-> <<>>, result |-> None, final |-> None]
        scanning == [StartStatus EXCEPT !.progress = ProgressN("Scanning repositories: ", Len(reg))]
        matching == [StartStatus EXCEPT !.progress = Progress("Matching code dependencies...")]
    IN IF reg = <<>>
       THEN /\ now' = now + 1
            /\ file' = file
            /\ EndReturned(r, [StartStatus EXCEPT !.progress = Progress("No indexed projects found")],
                           loc, [analyzed_at |-> Some(now), repos |-> <<>>, edges |-> <<>>])
       ELSE IF broken
       THEN /\ EndRaised(r, scanning, "AttributeError")
            /\ UNCHANGED <<file, now>>
       ELSE IF repos_info = <<>>
       THEN /\ now' = now + 1
            /\ file' = file
            /\ EndReturned(r, [StartStatus EXCEPT !.progress =
                                  ProgressN("Analysis complete. Found relationships: ", 0)],
                           loc, [analyzed_at |-> Some(now), repos |-> <<>>, edges |-> <<>>])
       ELSE IF Len(repos_info) >= 2
       THEN EnterImport(r, matching, loc)
       ELSE MergeAndSave(r, matching, loc, saves)

\* lines 721-782 and on to the first await
StartRun(r, reg, saves) ==
    LET broken == \E i \in 1..Len(reg) : reg[i].meta = None
        IsIndexed(e) == Indexed(e)
        eligible == IF broken THEN <<>> ELSE SelectSeq(reg, IsIndexed)
        repos_info == [i \in 1..Len(eligible) |-> InfoOf(eligible[i])]
        code_edges == _match_dependencies_to_repos(repos_info, eligible)
        indexed == [i \in 1..Len(reg) |-> [path |-> reg[i].path, meta |-> reg[i].meta]]
        loc == [live |-> TRUE, file0 |-> file, indexed |-> indexed, llm_errors |-> 0,
                batches |-> <<>>,
                repos_info |-> repos_info,
                repo_keys |-> RepoKeys(eligible, 1), batch_start |-> 0,
                code_edges |-> code_edges, import_edges |-> <<>>,
                semantic_edges |-> <<>>, result |-> None, final |-> None]
        scanning == [StartStatus EXCEPT !.progress = ProgressN("Scanning repositories: ", Len(reg))]
        matching == [StartStatus EXCEPT !.progress = Progress("Matching code dependencies...")]
    IN IF reg = <<>>
       THEN /\ now' = now + 1
            /\ BeginSave(r, [StartStatus EXCEPT !.progress = Progress("No indexed projects found")],
                         loc, [analyzed_at |-> Some(now), repos |-> <<>>, edges |-> <<>>], None,
                         saves)
       ELSE IF broken
       THEN /\ EndRaised(r, scanning, "AttributeError")
            /\ UNCHANGED <<file, now>>
       ELSE IF Len(repos_info) >= 2
       THEN EnterImport(r, matching, loc)
       ELSE MergeAndSave(r, matching, loc, saves)

\* the guard of line 716 inside the try: the rejection runs except and finally
analyze_all_relations_GuardInTry(r, regs, saves) ==
    /\ AtHead(Task("run", r))
    /\ rstate[r] = "created"
    /\ LoopIdle
    /\ ready' = Tail(ready)
    /\ UNCHANGED <<hstate, overlap, loaded>>
    /\ IF GuardPasses(status)
       THEN \E reg \in regs : StartRun(r, reg, saves)
       ELSE /\ rstate' = [rstate EXCEPT ![r] = "rejected"]
            /\ outcome' = [outcome EXCEPT ![r] = Rejected]
            /\ status' = StatusOnRaise(status, "Analysis already in progress")
            /\ UNCHANGED <<file, now, locals>>

\* the first step of the task _run(), admin.py 742-746, into analyze_all_relations
analyze_all_relations(r, regs, saves) ==
    /\ AtHead(Task("run", r))
    /\ rstate[r] = "created"
    /\ LoopIdle
    /\ ready' = Tail(ready)
    /\ UNCHANGED <<hstate, overlap, loaded>>
    /\ IF GuardPasses(status)
       THEN \E reg \in regs : StartRun(r, reg, saves)
       ELSE /\ rstate' = [rstate EXCEPT ![r] = "rejected"]
            /\ outcome' = [outcome EXCEPT ![r] = Rejected]
            /\ UNCHANGED <<status, file, now, locals>>

(***************************************************************************)
(* The awaited LLM call completes: the loop makes the task ready again     *)
(***************************************************************************)
LLMReturn(r) ==
    /\ rstate[r] \in {"await_import", "await_semantic"}
    /\ ~ InReady(Task("run", r))
    /\ LoopIdle
    /\ ready' = Append(ready, Task("run", r))
    /\ UNCHANGED <<hstate, overlap, rstate, status, file, now, locals, outcome, loaded>>

\* the loop over the batches ends after its first batch
ResumeImport_OneBatch(r, resps) ==
    /\ AtHead(Task("run", r))
    /\ rstate[r] = "await_import"
    /\ LoopIdle
    /\ ready' = Tail(ready)
    /\ UNCHANGED <<hstate, overlap, loaded>>
    /\ \E resp \in resps :
        LET loc == locals[r]
            edges == loc.import_edges \o ImportBatchResult(resp, loc.repos_info)
            next_start == loc.batch_start + BATCH_SIZE
            errors == loc.llm_errors + (IF LogsError(resp, loc.repos_info) THEN 1 ELSE 0)
            batch == [failed |-> resp.kind # "list",
                      edges |-> ImportBatchResult(resp, loc.repos_info)]
            loc1 == [loc EXCEPT !.import_edges = edges, !.batch_start = next_start,
                                !.llm_errors = errors, !.batches = Append(@, batch)]
        IN EnterSemantic(r, status, loc1)


\* a batch that fails empties all_edges: the edges of earlier batches are lost
ResumeImport_FailureClears(r, resps) ==
    /\ AtHead(Task("run", r))
    /\ rstate[r] = "await_import"
    /\ LoopIdle
    /\ ready' = Tail(ready)
    /\ UNCHANGED <<hstate, overlap, loaded>>
    /\ \E resp \in resps :
        LET loc == locals[r]
            edges == IF resp.kind # "list" THEN <<>>
                     ELSE loc.import_edges \o ImportBatchResult(resp, loc.repos_info)
            next_start == loc.batch_start + BATCH_SIZE
            errors == loc.llm_errors + (IF LogsError(resp, loc.repos_info) THEN 1 ELSE 0)
            batch == [failed |-> resp.kind # "list",
                      edges |-> ImportBatchResult(resp, loc.repos_info)]
            loc1 == [loc EXCEPT !.import_edges = edges, !.batch_start = next_start,
                                !.llm_errors = errors, !.batches = Append(@, batch)]
        IN IF next_start < Len(loc.repo_keys)
           THEN /\ locals' = [locals EXCEPT ![r] = loc1]
                /\ UNCHANGED <<rstate, status, file, now, outcome>>
           ELSE EnterSemantic(r, status, loc1)


\* _analyze_import_relations resumes with the batch's response, lines 486-524
ResumeImport(r, resps) ==
    /\ AtHead(Task("run", r))
    /\ rstate[r] = "await_import"
    /\ LoopIdle
    /\ ready' = Tail(ready)
    /\ UNCHANGED <<hstate, overlap, loaded>>
    /\ \E resp \in resps :
        LET loc == locals[r]
            edges == loc.import_edges \o ImportBatchResult(resp, loc.repos_info)
            next_start == loc.batch_start + BATCH_SIZE
            errors == loc.llm_errors + (IF LogsError(resp, loc.repos_info) THEN 1 ELSE 0)
            batch == [failed |-> resp.kind # "list",
                      edges |-> ImportBatchResult(resp, loc.repos_info)]
            loc1 == [loc EXCEPT !.import_edges = edges, !.batch_start = next_start,
                                !.llm_errors = errors, !.batches = Append(@, batch)]
        IN IF next_start < Len(loc.repo_keys)
           THEN /\ locals' = [locals EXCEPT ![r] = loc1]
                /\ UNCHANGED <<rstate, status, file, now, outcome>>
           ELSE EnterSemantic(r, status, loc1)

\* an exception of the semantic LLM call is not caught: it ends the run
ResumeSemantic_ErrorFails(r, resps, saves) ==
    /\ AtHead(Task("run", r))
    /\ rstate[r] = "await_semantic"
    /\ LoopIdle
    /\ ready' = Tail(ready)
    /\ UNCHANGED <<hstate, overlap, loaded>>
    /\ \E resp \in resps :
        LET loc == locals[r]
            errors == loc.llm_errors + (IF LogsError(resp, loc.repos_info) THEN 1 ELSE 0)
        IN IF resp.kind = "raise"
           THEN EndRaised(r, status, "LLMError") /\ UNCHANGED <<file, now>>
           ELSE MergeAndSave(r, status,
                        [loc EXCEPT !.semantic_edges = SemanticResult(resp, loc.repos_info),
                                    !.llm_errors = errors],
                        saves)

\* _analyze_semantic_relations resumes with the response, lines 644-684, then the merge
ResumeSemantic(r, resps, saves) ==
    /\ AtHead(Task("run", r))
    /\ rstate[r] = "await_semantic"
    /\ LoopIdle
    /\ ready' = Tail(ready)
    /\ UNCHANGED <<hstate, overlap, loaded>>
    /\ \E resp \in resps :
        LET loc == locals[r]
            errors == loc.llm_errors + (IF LogsError(resp, loc.repos_info) THEN 1 ELSE 0)
        IN MergeAndSave(r, status,
                        [loc EXCEPT !.semantic_edges = SemanticResult(resp, loc.repos_info),
                                    !.llm_errors = errors],
                        saves)

\* save_relations from the open to the end, lines 54-57, and the return
SaveFinish(r, dumps) ==
    /\ rstate[r] = "saving"
    /\ LET loc == locals[r]
           result == loc.result[1]
           done == IF loc.final = None THEN status
                   ELSE [status EXCEPT !.progress = loc.final[1]]
       IN /\ \E dumped \in dumps : file' = IF dumped THEN Json(result) ELSE Torn
          /\ EndReturned(r, done, loc, result)
    /\ UNCHANGED <<ready, hstate, overlap, now, loaded>>

(***************************************************************************)
(* A consumer outside the loop thread (the MCP server's get_repo_relations *)
(* tool, another worker) calls load_relations                              *)
(***************************************************************************)
ConsumerLoad ==
    /\ loaded' =
        IF \E q \in Requests : rstate[q] = "saving"
        THEN LET q == CHOOSE q \in Requests : rstate[q] = "saving"
             IN [val |-> load_relations(file), old |-> load_relations(locals[q].file0),
                 new |-> locals[q].result[1]]
        ELSE [val |-> load_relations(file), old |-> load_relations(file),
              new |-> load_relations(file)]
    /\ UNCHANGED <<ready, hstate, overlap, rstate, status, file, now, locals, outcome>>

Next ==
    \/ \E r \in Requests : Arrive(r)
    \/ \E r \in Requests : trigger_relation_analysis(r)
    \/ \E r \in Requests : analyze_all_relations(r, LifecycleRegistries, SaveOutcomes)
    \/ \E r \in Requests : LLMReturn(r)
    \/ \E r \in Requests : ResumeImport(r, LifecycleImportResponses)
    \/ \E r \in Requests : ResumeSemantic(r, LifecycleSemanticResponses, SaveOutcomes)
    \/ \E r \in Requests : SaveFinish(r, BOOLEAN)
    \/ ConsumerLoad

Spec == Init /\ [][Next]_vars

\* The event loop steps every task in its ready queue and a synchronous
\* save_relations runs to its end.  Nothing makes an awaited _call_llm_inner
\* complete: the calls of lines 486 and 644 are awaited without a timeout, so
\* LLMReturn is not among the fair actions.
LoopFairness ==
    \A r \in Requests :
        /\ WF_vars(trigger_relation_analysis(r))
        /\ WF_vars(analyze_all_relations(r, LifecycleRegistries, SaveOutcomes))
        /\ WF_vars(ResumeImport(r, LifecycleImportResponses))
        /\ WF_vars(ResumeSemantic(r, LifecycleSemanticResponses, SaveOutcomes))
        /\ WF_vars(SaveFinish(r, BOOLEAN))

SpecLive == Spec /\ LoopFairness

\* one request, every registry and every response within the bounds, no I/O error
NextFusion ==
    \/ Arrive(1)
    \/ trigger_relation_analysis(1)
    \/ analyze_all_relations(1, FusionRegistries, {"opened"})
    \/ LLMReturn(1)
    \/ ResumeImport(1, FusionImportResponses)
    \/ ResumeSemantic(1, FusionSemanticResponses, {"opened"})
    \/ SaveFinish(1, {TRUE})

SpecFusion == Init /\ [][NextFusion]_vars

(***************************************************************************)
(* _match_dependencies_to_repos on its own: the call's arguments are drawn *)
(* in the initial state, the one step makes the call.  all_repos and       *)
(* repo_deps are dicts over the same paths in the same insertion order:    *)
(* one sequence of [path, deps] stands for both.                           *)
(***************************************************************************)
MatcherRepos ==
    {[path |-> p, deps |-> ds] : p \in MatcherPaths, ds \in SeqAll(MatcherDepNames, MaxDeps)}

MatcherInputs ==
    {<<>>}
    \cup {<<e>> : e \in MatcherRepos}
    \cup {reg \in MatcherRepos \X MatcherRepos : reg[1].path # reg[2].path}

InitMatcher ==
    /\ ready = <<>>
    /\ hstate = [r \in Requests |-> "new"]
    /\ overlap = [r \in Requests |-> FALSE]
    /\ rstate = [r \in Requests |-> "none"]
    /\ status = IdleStatus
    /\ file = Absent
    /\ now = 1
    /\ \E reg \in MatcherInputs :
          locals = [r \in Requests |->
                       IF r = 1 THEN [live |-> TRUE, repo_deps |-> reg] ELSE NoLocals]
    /\ outcome = [r \in Requests |-> NoOutcome]
    /\ loaded = [val |-> EmptyGraph, old |-> EmptyGraph, new |-> EmptyGraph]

CallMatcher ==
    /\ locals[1].live
    /\ outcome[1] = NoOutcome
    /\ outcome' = [outcome EXCEPT ![1] =
                      [kind |-> "matched", repo_deps |-> locals[1].repo_deps,
                       edges |-> _match_dependencies_to_repos(locals[1].repo_deps,
                                                              locals[1].repo_deps)]]
    /\ UNCHANGED <<ready, hstate, overlap, rstate, status, file, now, locals, loaded>>

NextMatcher == CallMatcher

SpecMatcher == InitMatcher /\ [][NextMatcher]_vars

(***************************************************************************)
(* The validation of one LLM response on its own, lines 498-522 of         *)
(* _analyze_import_relations and 657-684 of _analyze_semantic_relations:   *)
(* the response and the repository list are drawn in the initial state.    *)
(***************************************************************************)
ValidateRels ==
    ImportRels \cup SemanticRels
    \cup { Scalar,
           [from |-> PathAX, to |-> PathAY],
           RelC(PathAX, PathAX, "related", "high"),
           RelC(PathAY, PathAX, "related", "medium"),
           RelC(ListValue, PathAY, "related", "high"),
           RelC(PathAX, ListValue, "related", "medium") }

ValidateResponses == Responses(ValidateRels)

ValidateRepoLists ==
    { <<[path |-> PathAX], [path |-> PathAY]>>,
      <<[path |-> PathAX], [path |-> PathBX]>> }

InitValidate ==
    /\ ready = <<>>
    /\ hstate = [r \in Requests |-> "new"]
    /\ overlap = [r \in Requests |-> FALSE]
    /\ rstate = [r \in Requests |-> "none"]
    /\ status = IdleStatus
    /\ file = Absent
    /\ now = 1
    /\ \E resp \in ValidateResponses, repos \in ValidateRepoLists :
          locals = [r \in Requests |->
                       IF r = 1 THEN [live |-> TRUE, resp |-> resp, repos_info_list |-> repos]
                       ELSE NoLocals]
    /\ outcome = [r \in Requests |-> NoOutcome]
    /\ loaded = [val |-> EmptyGraph, old |-> EmptyGraph, new |-> EmptyGraph]

ValidateImport ==
    /\ locals[1].live
    /\ outcome[1] = NoOutcome
    /\ outcome' = [outcome EXCEPT ![1] =
                      [kind |-> "import", resp |-> locals[1].resp,
                       valid_paths |-> ValidPaths(locals[1].repos_info_list),
                       edges |-> ImportBatchResult(locals[1].resp, locals[1].repos_info_list)]]
    /\ UNCHANGED <<ready, hstate, overlap, rstate, status, file, now, locals, loaded>>

ValidateSemantic ==
    /\ locals[1].live
    /\ outcome[1] = NoOutcome
    /\ outcome' = [outcome EXCEPT ![1] =
                      [kind |-> "semantic", resp |-> locals[1].resp,
                       valid_paths |-> ValidPaths(locals[1].repos_info_list),
                       edges |-> SemanticResult(locals[1].resp, locals[1].repos_info_list)]]
    /\ UNCHANGED <<ready, hstate, overlap, rstate, status, file, now, locals, loaded>>

NextValidate == ValidateImport \/ ValidateSemantic

SpecValidate == InitValidate /\ [][NextValidate]_vars

(***************************************************************************)
(* generate_mermaid_graph on its own: the argument is drawn in the initial *)
(* state, every step is one call on it.                                    *)
(***************************************************************************)
RenderTypes ==
    {"depends_on", "likely_depends_on", "provides_api_for", "shares_protocol",
     "upstream", "downstream", "related", "other"}

RenderEdges ==
    {[from |-> f, to |-> t, type |-> ty, description |-> <<"d">>] :
        f \in MatcherPaths, t \in MatcherPaths \ {PathAY}, ty \in RenderTypes}

RenderData ==
    {None, Some([analyzed_at |-> None, repos |-> <<>>]), Some(EmptyGraph)}
    \cup {Some([analyzed_at |-> None, repos |-> <<>>, edges |-> <<e>>]) : e \in RenderEdges}
    \cup {Some([analyzed_at |-> None, repos |-> <<>>, edges |-> es]) :
             es \in RenderEdges \X RenderEdges}

InitRender ==
    /\ ready = <<>>
    /\ hstate = [r \in Requests |-> "new"]
    /\ overlap = [r \in Requests |-> FALSE]
    /\ rstate = [r \in Requests |-> "none"]
    /\ status = IdleStatus
    /\ file = Absent
    /\ now = 1
    /\ \E data \in RenderData :
          locals = [r \in Requests |-> [live |-> TRUE, data |-> data]]
    /\ outcome = [r \in Requests |-> NoOutcome]
    /\ loaded = [val |-> EmptyGraph, old |-> EmptyGraph, new |-> EmptyGraph]

\* the r-th caller calls generate_mermaid_graph(data)
CallRenderer(r) ==
    /\ outcome[r] = NoOutcome
    /\ outcome' = [outcome EXCEPT ![r] =
                      [kind |-> "rendered", data |-> locals[r].data,
                       text |-> generate_mermaid_graph(locals[r].data)]]
    /\ UNCHANGED <<ready, hstate, overlap, rstate, status, file, now, locals, loaded>>

NextRender == \E r \in Requests : CallRenderer(r)

SpecRender == InitRender /\ [][NextRender]_vars

(***************************************************************************)
(* scan_repo_imports on its own: the files of the checkout are drawn in    *)
(* the initial state, the one step scans them.                             *)
(***************************************************************************)
ScanImportSets == {{}} \cup {{a, b} : a \in ScanNames, b \in ScanNames}

ScanFiles ==
    {[ext |-> ext, raw_imports |-> raw] :
        ext \in {".py", ".js", ".ts", ".go", ".java"}, raw \in ScanImportSets}

ScanCheckouts == {<<>>} \cup {<<f>> : f \in ScanFiles} \cup (ScanFiles \X ScanFiles)

InitScan ==
    /\ ready = <<>>
    /\ hstate = [r \in Requests |-> "new"]
    /\ overlap = [r \in Requests |-> FALSE]
    /\ rstate = [r \in Requests |-> "none"]
    /\ status = IdleStatus
    /\ file = Absent
    /\ now = 1
    /\ \E files \in ScanCheckouts :
          locals = [r \in Requests |->
                       IF r = 1 THEN [live |-> TRUE, source_files |-> files] ELSE NoLocals]
    /\ outcome = [r \in Requests |-> NoOutcome]
    /\ loaded = [val |-> EmptyGraph, old |-> EmptyGraph, new |-> EmptyGraph]

CallScan ==
    /\ locals[1].live
    /\ outcome[1] = NoOutcome
    /\ outcome' = [outcome EXCEPT ![1] =
                      [kind |-> "scanned", source_files |-> locals[1].source_files,
                       imports |-> scan_repo_imports(locals[1].source_files)]]
    /\ UNCHANGED <<ready, hstate, overlap, rstate, status, file, now, locals, loaded>>

NextScan == CallScan

SpecScan == InitScan /\ [][NextScan]_vars

(***************************************************************************)
(* A run over registries large enough for one, two and three import        *)
(* batches: every repository has imports, none declares a dependency.      *)
(***************************************************************************)
BatchPath(i) == <<"a", "/", ToString(i)>>

BatchRegistry(n) == [i \in 1..n |-> Entry(BatchPath(i), "indexed", <<>>, <<"m">>)]

BatchRegistries ==
    {BatchRegistry(BATCH_SIZE), BatchRegistry(BATCH_SIZE + 1), BatchRegistry(2 * BATCH_SIZE + 1)}

BatchImportResponses ==
    { Raised, NotList,
      ListOf(<<RelC(BatchPath(1), BatchPath(2), "depends_on", "high")>>),
      ListOf(<<Scalar, RelC(BatchPath(2), BatchPath(1), "depends_on", "medium")>>) }

BatchSemanticResponses == {Raised, ListOf(<<Rel(BatchPath(2), BatchPath(3), "related")>>)}

NextBatches ==
    \/ Arrive(1)
    \/ trigger_relation_analysis(1)
    \/ analyze_all_relations(1, BatchRegistries, {"opened"})
    \/ LLMReturn(1)
    \/ ResumeImport(1, BatchImportResponses)
    \/ ResumeSemantic(1, BatchSemanticResponses, {"opened"})
    \/ SaveFinish(1, {TRUE})

SpecBatches == Init /\ [][NextBatches]_vars

(***************************************************************************)
(* Runs one after another over a registry that changes between them: a     *)
(* registry with a declared dependency, one without an indexed entry, an   *)
(* empty one.  The file system does not fail.                              *)
(***************************************************************************)
ReplaceRegistries ==
    { <<>>,
      <<Entry(PathAX, "error", <<<<"y">>>>, <<"m">>)>>,
      <<Entry(PathAX, "indexed", <<<<"y">>>>, <<"m">>), Entry(PathAY, "indexed", <<>>, <<>>)>> }

NextReplace ==
    \/ \E r \in Requests : Arrive(r)
    \/ \E r \in Requests : trigger_relation_analysis(r)
    \/ \E r \in Requests : analyze_all_relations(r, ReplaceRegistries, {"opened"})
    \/ \E r \in Requests : LLMReturn(r)
    \/ \E r \in Requests : ResumeImport(r, LifecycleImportResponses)
    \/ \E r \in Requests : ResumeSemantic(r, LifecycleSemanticResponses, {"opened"})
    \/ \E r \in Requests : SaveFinish(r, {TRUE})
    \/ ConsumerLoad

SpecReplace == Init /\ [][NextReplace]_vars

(***************************************************************************)
(* Properties                                                              *)
(***************************************************************************)
RunsInFlight == {r \in Requests : rstate[r] \in InFlight}
ReturnedRuns == {r \in Requests : outcome[r].kind = "returned"}
RaisedRuns == {r \in Requests : outcome[r].kind = "raised"}

\* C1: at most one call of analyze_all_relations is between the guard and its
\* end, and a call made while the flag is set raises at once: its task ends,
\* nothing is queued for it, and no other run's position or locals change.
C1_SingleRunInFlight ==
    [][ /\ Cardinality(RunsInFlight') <= 1
        /\ \A r \in Requests :
              (rstate[r] = "created" /\ rstate'[r] # "created" /\ status.running)
              => /\ rstate'[r] = "rejected"
                 /\ \A i \in 1..Len(ready') : ready'[i] # Task("run", r)
                 /\ \A q \in Requests \ {r} : rstate'[q] = rstate[q] /\ locals'[q] = locals[q]
      ]_vars

\* C1 witness: a call was rejected while another run is in flight
C1_Witness ==
    \E r, q \in Requests : outcome[r] = Rejected /\ rstate[q] \in InFlight

\* C2: a trigger request that arrives before an earlier accepted request's run
\* has finished (or even started) is answered with a conflict: no request is
\* accepted while another request's background run is unfinished.
C2_SecondTriggerConflicts ==
    \A r \in Requests : hstate[r] = "accepted" => ~ overlap[r]

\* C3: every run that passed the guard ends with running = false; when it ends
\* with an unhandled exception the error field holds the exception's message,
\* when it returns the error field is null.
C3_RunEndsClean ==
    [][ \A r \in Requests :
          /\ (rstate[r] # "returned" /\ rstate'[r] = "returned")
             => status'.running = FALSE /\ status'.error = None
          /\ (rstate[r] # "raised" /\ rstate'[r] = "raised")
             => status'.running = FALSE /\ status'.error = Some(outcome'[r].msg)
      ]_vars

\* C3 witness: one run has returned, a later one has raised, and the status
\* shows the flag cleared and the error recorded
C3_Witness ==
    /\ ReturnedRuns # {}
    /\ RaisedRuns # {}
    /\ status.running = FALSE
    /\ status.error # None

\* C4: a run that ends with an unhandled exception leaves the persisted file as
\* it was when the run started, and the file is written only by the one
\* save_relations call a run makes after the merge.
C4_FailedRunKeepsGraph ==
    [][ /\ \A r \in Requests :
              (rstate[r] # "raised" /\ rstate'[r] = "raised")
              => file' = (IF locals[r].live THEN locals[r].file0 ELSE file)
        /\ file' # file
           => \E r \in Requests :
                 \/ rstate[r] # "saving" /\ rstate'[r] = "saving" /\ locals'[r].result # None
                 \/ rstate[r] = "saving" /\ rstate'[r] = "returned"
      ]_vars

\* C4 witness: a run raised after both LLM layers while the file holds the graph
\* an earlier run returned
C4_Witness ==
    \E r \in RaisedRuns, q \in ReturnedRuns :
        /\ outcome[r].msg = "OSError"
        /\ file = Json(outcome[q].result)
        /\ outcome[q].result.edges # <<>>

\* C5: a load_relations call of a consumer that interleaves with save_relations
\* returns the complete graph persisted before or the complete new graph.
C5_LoadSeesOldOrNew ==
    loaded.val \in {loaded.old, loaded.new}

\* the run that returned last: the one with the latest analyzed_at
LastReturned ==
    CHOOSE r \in ReturnedRuns :
        \A q \in ReturnedRuns : outcome[q].result.analyzed_at[1] <= outcome[r].result.analyzed_at[1]

\* C6: once a run has returned a graph G, load_relations returns G until the
\* next run persists; while no file exists it returns the empty graph.
C6_LoadReturnsLastResult ==
    /\ (LoopIdle /\ ReturnedRuns # {})
       => load_relations(file) = outcome[LastReturned].result
    /\ file = Absent => load_relations(file) = EmptyGraph

Unordered(e) == {e.from, e.to}

\* C7: the graph a run returns holds at most one edge for every unordered pair
\* of repositories.
C7_OneEdgePerUnorderedPair ==
    \A r \in ReturnedRuns :
        LET edges == outcome[r].result.edges
        IN \A i, j \in 1..Len(edges) : i # j => Unordered(edges[i]) # Unordered(edges[j])

\* the four layers of a returned run, highest priority first
LayersOf(o) ==
    LET IsHigh(e) == ConfidenceIs(e, "high")
        IsMedium(e) == ConfidenceIs(e, "medium")
    IN << o.code_edges, SelectSeq(o.import_edges, IsHigh),
          SelectSeq(o.import_edges, IsMedium), o.semantic_edges >>

Proposes(layer, u) == \E i \in 1..Len(layer) : Unordered(layer[i]) = u

\* C8: for every unordered pair proposed by more than one layer, the returned
\* graph holds exactly one edge for the pair, and it is an edge of the
\* highest-priority layer that proposed the pair, whatever the directions.
C8_PriorityLaw ==
    \A r \in ReturnedRuns :
        LET layers == LayersOf(outcome[r])
            edges == outcome[r].result.edges
            pairs == {{p, q} : p \in Paths, q \in Paths}
        IN \A u \in pairs :
              Cardinality({k \in 1..4 : Proposes(layers[k], u)}) > 1
              => LET top == CHOOSE k \in 1..4 :
                               /\ Proposes(layers[k], u)
                               /\ \A m \in 1..4 : Proposes(layers[m], u) => k <= m
                 IN /\ Cardinality({i \in 1..Len(edges) : Unordered(edges[i]) = u}) = 1
                    /\ \A i \in 1..Len(edges) :
                          Unordered(edges[i]) = u
                          => \E j \in 1..Len(layers[top]) : layers[top][j] = edges[i]

\* the first edge _match_dependencies_to_repos produced for the pair of code_edges[i]
FirstCodeEdge(code_edges, i) ==
    code_edges[CHOOSE j \in 1..i :
                  /\ code_edges[j].from = code_edges[i].from
                  /\ code_edges[j].to = code_edges[i].to
                  /\ \A m \in 1..(j - 1) : code_edges[m].from # code_edges[i].from
                                           \/ code_edges[m].to # code_edges[i].to]

\* C9: for every (from, to) the declared-dependency matcher produced, the
\* returned graph holds the first layer-1 edge for it (type depends_on,
\* description "Code dependency: ..."), and no other edge from -> to.
C9_LayerOneKept ==
    \A r \in ReturnedRuns :
        LET code_edges == outcome[r].code_edges
            edges == outcome[r].result.edges
        IN \A i \in 1..Len(code_edges) :
              LET first == FirstCodeEdge(code_edges, i)
              IN /\ first.type = "depends_on"
                 /\ first.description[1] = "Code dependency: "
                 /\ \E k \in 1..Len(edges) : edges[k] = first
                 /\ \A k \in 1..Len(edges) :
                       (edges[k].from = first.from /\ edges[k].to = first.to)
                       => edges[k] = first

\* C9 witness: the matcher produced a pair twice with different descriptions,
\* and both the import layer and the semantic layer proposed the same pair
C9_Witness ==
    \E r \in ReturnedRuns :
        LET o == outcome[r]
        IN /\ Len(o.code_edges) >= 2
           /\ o.code_edges[1].from = o.code_edges[2].from
           /\ o.code_edges[1].to = o.code_edges[2].to
           /\ o.code_edges[1].description # o.code_edges[2].description
           /\ <<o.code_edges[1].from, o.code_edges[1].to>> \in PairsOf(o.import_edges)
           /\ <<o.code_edges[1].from, o.code_edges[1].to>> \in PairsOf(o.semantic_edges)

SameInputs(o1, o2) ==
    /\ o1.code_edges = o2.code_edges
    /\ o1.import_edges = o2.import_edges
    /\ o1.semantic_edges = o2.semantic_edges

RelatedOf(g, a) ==
    g.repos[CHOOSE i \in 1..Len(g.repos) : g.repos[i].path = a].related

NodesOf(g) == {g.repos[i].path : i \in 1..Len(g.repos)}

Linked(g, a, b) ==
    \E k \in 1..Len(g.edges) :
        \/ g.edges[k].from = a /\ g.edges[k].to = b
        \/ g.edges[k].from = b /\ g.edges[k].to = a

\* C11: in the graph a run returns, for all nodes a and b, b is in related(a)
\* exactly when the edge list holds a -> b or b -> a; related(a) holds only
\* nodes, never a itself, and no element twice.  Nothing of the related lists
\* of the previously persisted graph survives without such an edge.
C11_RelatedMirrorsEdges ==
    \A r \in ReturnedRuns :
        LET g == outcome[r].result
        IN \A a \in NodesOf(g) :
              LET rel == RelatedOf(g, a)
              IN /\ \A b \in NodesOf(g) :
                        (\E k \in 1..Len(rel) : rel[k] = b) <=> Linked(g, a, b)
                 /\ \A k \in 1..Len(rel) : rel[k] \in NodesOf(g) /\ rel[k] # a
                 /\ \A k, m \in 1..Len(rel) : k # m => rel[k] # rel[m]

\* C11 witness: a run returned a graph with an edge and non-empty related
\* lists, and a later run over the same two repositories returned a graph
\* without edges whose related lists are empty
C11_Witness ==
    \E r1, r2 \in ReturnedRuns :
        LET g1 == outcome[r1].result
            g2 == outcome[r2].result
        IN /\ g1.analyzed_at[1] < g2.analyzed_at[1]
           /\ g1.edges # <<>>
           /\ NodesOf(g1) = Paths /\ NodesOf(g2) = Paths
           /\ RelatedOf(g1, PathAX) = <<PathAY>>
           /\ g2.edges = <<>>
           /\ RelatedOf(g2, PathAX) = <<>>

Matched == outcome[1].kind = "matched"

\* the name a dependency or a path is compared by: last "/"-segment, lower-cased
ShortName(s) == Lower(LastSegment(s))
\* the name with and without the hyphen -> underscore replacement
NameForms(s) == {ShortName(s), ReplaceHyphen(ShortName(s))}
\* dependency name d names the repository at path p
Names(d, p) == NameForms(d) \cap NameForms(p) # {}

\* C12: no edge the declared-dependency matcher returns has from = to,
\* whatever the repositories and the names they declare, a repository
\* declaring its own short name included.
C12_NoSelfEdge ==
    Matched => \A k \in 1..Len(outcome[1].edges) :
                  outcome[1].edges[k].from # outcome[1].edges[k].to

\* C12 witness: the matcher ran on a repository that declares its own short
\* name next to the name of another repository, and returned an edge
C12_Witness ==
    /\ Matched
    /\ \E i \in 1..Len(outcome[1].repo_deps) :
          LET R == outcome[1].repo_deps[i]
          IN /\ \E j \in 1..Len(R.deps) : Names(R.deps[j], R.path)
             /\ \E k \in 1..Len(outcome[1].edges) : outcome[1].edges[k].from = R.path

\* C13: for every repository R and every dependency name d it declares, when
\* d names a repository other than R, the matcher returns a depends_on edge
\* from R to a repository d names, described "Code dependency: d".
C13_DeclaredDependencyMatched ==
    Matched =>
        \A i \in 1..Len(outcome[1].repo_deps) :
            LET R == outcome[1].repo_deps[i]
            IN \A j \in 1..Len(R.deps) :
                  (\E m \in 1..Len(outcome[1].repo_deps) :
                      /\ outcome[1].repo_deps[m].path # R.path
                      /\ Names(R.deps[j], outcome[1].repo_deps[m].path))
                  => \E k \in 1..Len(outcome[1].edges) :
                        LET edge == outcome[1].edges[k]
                        IN /\ edge.from = R.path
                           /\ edge.to # R.path
                           /\ Names(R.deps[j], edge.to)
                           /\ edge.type = "depends_on"
                           /\ edge.description = <<"Code dependency: ">> \o R.deps[j]

\* the elements of the response the validation ran on (none when the call
\* raised or the response is no list)
ItemsOf(o) == IF o.resp.kind = "list" THEN o.resp.items ELSE <<>>

\* a response element is an object whose from and to are known paths and differ
EndpointsOk(rel, known) ==
    /\ Has(rel, "from") /\ rel.from \in known
    /\ Has(rel, "to") /\ rel.to \in known
    /\ rel.from # rel.to

ImportOk(rel, known) ==
    EndpointsOk(rel, known) /\ Has(rel, "confidence") /\ rel.confidence \in {"high", "medium"}

SemanticOk(rel, known) ==
    /\ EndpointsOk(rel, known)
    /\ Has(rel, "type")
    /\ rel.type \in {"provides_api_for", "shares_protocol", "upstream", "downstream", "related"}

\* C14: every edge the import-based matcher returns has from and to among
\* the known paths, from # to, confidence high or medium, type depends_on
\* exactly when the confidence is high and likely_depends_on exactly when it
\* is medium; the edges come, in order, from response elements that meet the
\* conditions, so every element that fails one is discarded.
C14_ImportEdgesValidated ==
    outcome[1].kind = "import" =>
        LET o == outcome[1]
            Ok(rel) == ImportOk(rel, o.valid_paths)
            passing == SelectSeq(ItemsOf(o), Ok)
        IN /\ Len(o.edges) <= Len(passing)
           /\ \A k \in 1..Len(o.edges) :
                 LET e == o.edges[k]
                 IN /\ e.from \in o.valid_paths /\ e.to \in o.valid_paths
                    /\ e.from # e.to
                    /\ e.confidence \in {"high", "medium"}
                    /\ (e.type = "depends_on") <=> (e.confidence = "high")
                    /\ (e.type = "likely_depends_on") <=> (e.confidence = "medium")
                    /\ e.from = passing[k].from /\ e.to = passing[k].to
                    /\ e.confidence = passing[k].confidence

\* C14 witness: of a response of two elements one was discarded and the other
\* became a likely_depends_on edge
C14_Witness ==
    /\ outcome[1].kind = "import"
    /\ Len(ItemsOf(outcome[1])) = 2
    /\ Len(outcome[1].edges) = 1
    /\ outcome[1].edges[1].type = "likely_depends_on"

\* C15: every edge the semantic analyzer returns has from and to among the
\* known paths, from # to and a type of the closed set; the edges are, in
\* order, response elements that meet the conditions, so any other element is
\* discarded; a response that is no JSON array yields no edge.
C15_SemanticEdgesValidated ==
    outcome[1].kind = "semantic" =>
        LET o == outcome[1]
            Ok(rel) == SemanticOk(rel, o.valid_paths)
            passing == SelectSeq(ItemsOf(o), Ok)
        IN /\ Len(o.edges) <= Len(passing)
           /\ \A k \in 1..Len(o.edges) : o.edges[k] = passing[k] /\ Ok(o.edges[k])
           /\ o.resp.kind # "list" => o.edges = <<>>

\* C15 witness: of a response of two elements one was discarded and the other
\* is returned
C15_Witness ==
    /\ outcome[1].kind = "semantic"
    /\ Len(ItemsOf(outcome[1])) = 2
    /\ Len(outcome[1].edges) = 1

\* how many repositories of an info list have a summary (the info holds "" for none)
WithSummary(repos_info) ==
    Cardinality({i \in 1..Len(repos_info) : repos_info[i].summary # ""})

\* C16: a run awaits the semantic LLM call only when at least two of its
\* repositories have a summary, and a run in which fewer than two have one
\* returns with no layer-3 edge.
C16_SemanticNeedsTwoSummaries ==
    /\ \A r \in Requests :
          rstate[r] = "await_semantic" => WithSummary(locals[r].repos_info) >= 2
    /\ \A r \in ReturnedRuns :
          WithSummary(outcome[r].result.repos) < 2 => outcome[r].semantic_edges = <<>>

EmptyRegistryRun(r) == locals[r].live /\ locals[r].indexed = <<>>

IndexedPaths(indexed) ==
    {indexed[i].path : i \in {k \in 1..Len(indexed) :
                                 indexed[k].meta # None /\ indexed[k].meta[1].status = "indexed"}}

\* C18: the repositories a run works on (scanned, listed in the LLM prompts,
\* counted for the two-repository threshold) are the registry paths with
\* status "indexed"; an LLM call is awaited only when there are two; the nodes
\* of the returned graph are exactly these paths and every edge joins two.
C18_OnlyIndexedParticipate ==
    /\ \A r \in Requests :
          (locals[r].live /\ rstate[r] # "raised")
          => /\ ValidPaths(locals[r].repos_info) = IndexedPaths(locals[r].indexed)
             /\ rstate[r] \in {"await_import", "await_semantic"}
                => Cardinality(IndexedPaths(locals[r].indexed)) >= 2
    /\ \A r \in ReturnedRuns :
          LET g == outcome[r].result
              ours == IndexedPaths(outcome[r].indexed)
          IN /\ NodesOf(g) = ours
             /\ \A k \in 1..Len(g.edges) : g.edges[k].from \in ours /\ g.edges[k].to \in ours

\* C18 witness: a run over a registry holding an indexed repository and one of
\* another status returned a graph whose one node is the indexed repository
C18_Witness ==
    \E r \in ReturnedRuns :
        /\ Len(outcome[r].indexed) = 2
        /\ IndexedPaths(outcome[r].indexed) = {PathAX}
        /\ NodesOf(outcome[r].result) = {PathAX}

HoldsPair(edges, e) ==
    \E k \in 1..Len(edges) : edges[k].from = e.from /\ edges[k].to = e.to

C20_RunEventuallyEnds ==
    \A r \in Requests : (rstate[r] \in InFlight) ~> (rstate[r] \in {"returned", "raised"})

RenderedCalls == {r \in Requests : outcome[r].kind = "rendered"}

\* the edge list a call of the renderer worked on
EdgesRendered(o) ==
    IF o.data # None /\ Has(o.data[1], "edges") THEN o.data[1].edges ELSE <<>>

EndpointsOf(edges) ==
    {edges[i].from : i \in 1..Len(edges)} \cup {edges[i].to : i \in 1..Len(edges)}

\* how many endpoints come before node n in lexicographic order
Before(edges, n) == Cardinality({m \in EndpointsOf(edges) : LexLess(m, n)})

\* the pieces of an edge line: "  ", "N", i, " ", arrow, "|", label, "| ", "N", j
ArrowOf(line) == line[5]
LabelOf(line) == line[7]

\* C21: the distinct endpoints get the ids N0, N1, ... in lexicographic order
\* of their paths (the endpoint with k endpoints before it is declared on the
\* k-th node line as Nk and every edge line refers to it as Nk); two edge
\* lines with the same relationship label have the same arrow; two calls on
\* the same data return the same lines.
C21_RenderDeterministic ==
    /\ \A r \in RenderedCalls :
          LET edges == EdgesRendered(outcome[r])
              text == outcome[r].text
              n == Cardinality(EndpointsOf(edges))
          IN edges # <<>>
             => /\ \A e \in EndpointsOf(edges) :
                      text[2 + Before(edges, e)] = NodeLine(Before(edges, e), e)
                /\ \A i \in 1..Len(edges) :
                      /\ SubSeq(text[1 + n + i], 2, 3) = SafeId(Before(edges, edges[i].from))
                      /\ SubSeq(text[1 + n + i], 9, 10) = SafeId(Before(edges, edges[i].to))
                /\ \A i, j \in 1..Len(edges) :
                      LabelOf(text[1 + n + i]) = LabelOf(text[1 + n + j])
                      => ArrowOf(text[1 + n + i]) = ArrowOf(text[1 + n + j])
    /\ \A r1, r2 \in RenderedCalls :
          outcome[r1].data = outcome[r2].data => outcome[r1].text = outcome[r2].text

\* C21 witness: two calls have rendered two edges over three endpoints, of
\* which a/x_y sorts between a/x and b/x
C21_Witness ==
    /\ Cardinality(RenderedCalls) >= 2
    /\ \E r \in RenderedCalls :
          /\ EndpointsOf(EdgesRendered(outcome[r])) = {PathAX, PathAU, PathBX}
          /\ EdgesRendered(outcome[r])[1].from = PathBX
          /\ outcome[r].text[3] = NodeLine(1, PathAU)

\* C22: the renderer returns the placeholder diagram exactly when the edge
\* list is empty or absent; otherwise the text is the header, one node line
\* for every distinct endpoint and then one edge line for every edge, in the
\* order of the edge list.
C22_RenderShape ==
    \A r \in RenderedCalls :
        LET edges == EdgesRendered(outcome[r])
            text == outcome[r].text
            n == Cardinality(EndpointsOf(edges))
        IN /\ (text = Placeholder) <=> (edges = <<>>)
           /\ edges # <<>>
              => /\ Len(text) = 1 + n + Len(edges)
                 /\ text[1] = <<"graph LR">>
                 /\ \A e \in EndpointsOf(edges) :
                       Cardinality({k \in 2..(1 + n) : text[k][4] = "[\""
                                       /\ SubSeq(text[k], 5, Len(text[k]) - 1) = LastSegment(e)
                                       /\ SubSeq(text[k], 2, 3) = SafeId(Before(edges, e))}) = 1
                 /\ \A i \in 1..Len(edges) :
                       /\ LabelOf(text[1 + n + i]) = TypeLabel(edges[i].type)
                       /\ SubSeq(text[1 + n + i], 2, 3) = SafeId(Before(edges, edges[i].from))
                       /\ SubSeq(text[1 + n + i], 9, 10) = SafeId(Before(edges, edges[i].to))

\* C22 witness: a call on a list holding the same edge twice returned the
\* header, two node lines and two edge lines
C22_Witness ==
    \E r \in RenderedCalls :
        LET edges == EdgesRendered(outcome[r])
        IN /\ Len(edges) = 2 /\ edges[1] = edges[2]
           /\ Len(outcome[r].text) = 5

RelationshipKinds ==
    {"depends_on", "likely_depends_on", "provides_api_for", "shares_protocol",
     "upstream", "downstream", "related"}

\* C23: in every graph a run returns, every edge has from # to, both
\* endpoints among the nodes of the graph, and a type of the closed set of
\* seven relationship kinds.
C23_EdgesWellFormed ==
    \A r \in ReturnedRuns :
        LET g == outcome[r].result
        IN \A k \in 1..Len(g.edges) :
              /\ g.edges[k].from # g.edges[k].to
              /\ g.edges[k].from \in NodesOf(g)
              /\ g.edges[k].to \in NodesOf(g)
              /\ g.edges[k].type \in RelationshipKinds

\* C23 witness: a returned graph holds an import edge of medium confidence
\* and a semantic edge in the opposite direction
C23_Witness ==
    \E r \in ReturnedRuns :
        LET g == outcome[r].result
        IN /\ Len(g.edges) = 2
           /\ g.edges[1].type = "likely_depends_on"
           /\ g.edges[2].type = "related"
           /\ outcome[r].llm_errors = 0

\* C24: in every graph a run returns, an edge with a confidence field is an
\* edge of the import layer: no layer-1 edge and no semantic edge has one.
C24_ConfidenceOnlyOnImportEdges ==
    \A r \in ReturnedRuns :
        LET o == outcome[r]
        IN \A k \in 1..Len(o.result.edges) :
              Has(o.result.edges[k], "confidence")
              => \E i \in 1..Len(o.import_edges) : o.import_edges[i] = o.result.edges[k]

\* name belongs to the noise vocabulary of the language of extension ext
IsNoiseFor(name, ext) ==
    IF ext = ".py" THEN name \in _PYTHON_STDLIB
    ELSE IF ext \in {".js", ".ts", ".jsx", ".tsx"} THEN name \in _JS_COMMON_PACKAGES
    ELSE IF ext = ".go" THEN name \in _GO_STDLIB
    ELSE \E q \in _JAVA_STDLIB_PREFIXES : StartsWith(name, q)

\* C25: the list scan_repo_imports returns holds no name of the noise
\* vocabulary of any language the checkout has files of, also when it has
\* files of several languages.
C25_NoNoiseInImports ==
    outcome[1].kind = "scanned"
    => \A k \in 1..Len(outcome[1].imports), f \in 1..Len(outcome[1].source_files) :
          ~ IsNoiseFor(outcome[1].imports[k], outcome[1].source_files[f].ext)

\* how many import batches a run over n_repos repositories, n_keys of them
\* with imports, has
BatchesNeeded(n_repos, n_keys) ==
    IF n_repos < 2 THEN 0 ELSE (n_keys + BATCH_SIZE - 1) \div BATCH_SIZE

Awaiting == {r \in Requests : rstate[r] \in {"await_import", "await_semantic"}}

\* C26: the layers of a run follow one another: the layer-1 edges exist when
\* the first LLM call is awaited and do not change; the import batches are
\* awaited one at a time; the semantic call is awaited only when every import
\* batch has been answered, and never before an import call; the merge and
\* the save come after the semantic layer; at most one LLM call is awaited.
C26_LayersInOrder ==
    [][ /\ Cardinality(Awaiting') <= 1
        /\ \A r \in Requests :
              /\ rstate[r] = "await_import"
                 => /\ rstate'[r] \in {"await_import", "await_semantic"}
                    /\ Len(locals'[r].batches) \in {Len(locals[r].batches),
                                                    Len(locals[r].batches) + 1}
                    /\ locals'[r].semantic_edges = <<>>
              /\ rstate[r] = "await_semantic"
                 => rstate'[r] \in {"await_semantic", "saving", "returned", "raised"}
              /\ rstate'[r] = "await_semantic"
                 => /\ Len(locals'[r].batches)
                         = BatchesNeeded(Len(locals'[r].repos_info), Len(locals'[r].repo_keys))
                    /\ locals'[r].semantic_edges = <<>>
              /\ (rstate[r] \in {"await_import", "await_semantic"} /\ locals'[r].live)
                 => locals'[r].code_edges = locals[r].code_edges
              /\ (rstate[r] = "await_semantic" /\ locals'[r].live)
                 => locals'[r].import_edges = locals[r].import_edges
              /\ (rstate'[r] = "saving" /\ rstate[r] # "saving")
                 => \/ rstate[r] = "await_semantic"
                    \/ rstate[r] = "created" /\ Len(locals'[r].repos_info) < 2
      ]_vars

\* C26 witness: a run awaits the semantic call after three import batches
C26_Witness ==
    \E r \in Requests :
        /\ rstate[r] = "await_semantic"
        /\ Len(locals[r].batches) = 3
        /\ locals[r].import_edges # <<>>

RECURSIVE EdgesOfBatches(_, _)
\* the edges of the batches from the i-th on, in batch order
EdgesOfBatches(batches, i) ==
    IF i > Len(batches) THEN <<>>
    ELSE batches[i].edges \o EdgesOfBatches(batches, i + 1)

\* C27: a run that returns has sent every import batch to the LLM exactly
\* once, failed batches included; a failed batch gives no edge and the import
\* edges are the valid edges of all the batches, in batch order.
C27_FailedBatchDropsOnlyItself ==
    \A r \in ReturnedRuns :
        LET o == outcome[r]
        IN /\ Len(o.batches) = BatchesNeeded(Cardinality(IndexedPaths(o.indexed)),
                                              Len(o.repo_keys))
           /\ \A k \in 1..Len(o.batches) : o.batches[k].failed => o.batches[k].edges = <<>>
           /\ o.import_edges = EdgesOfBatches(o.batches, 1)

\* C27 witness: of three batches the second failed; the edges of the first
\* and of the third are returned
C27_Witness ==
    \E r \in ReturnedRuns :
        LET o == outcome[r]
        IN /\ Len(o.batches) = 3
           /\ ~ o.batches[1].failed /\ o.batches[1].edges # <<>>
           /\ o.batches[2].failed
           /\ ~ o.batches[3].failed /\ o.batches[3].edges # <<>>
           /\ Len(o.import_edges) = 2

\* C28: a call of analyze_all_relations that is rejected because a run is in
\* flight changes neither a field of the status (running, progress, error) nor
\* the persisted file, nor the position or the locals of the run in flight.
C28_RejectionChangesNothing ==
    [][ \A r \in Requests :
            (rstate[r] = "created" /\ rstate'[r] = "rejected")
            => /\ status' = status
               /\ status'.running
               /\ file' = file
               /\ \A q \in Requests \ {r} : rstate'[q] = rstate[q] /\ locals'[q] = locals[q]
      ]_vars

\* C28 witness: a call was rejected while the run in flight awaits the import
\* LLM call; the status still shows that run's phase, flag set, no error
C28_Witness ==
    \E r, q \in Requests :
        /\ outcome[r] = Rejected
        /\ rstate[q] = "await_import"
        /\ status = [running |-> TRUE,
                     progress |-> Progress("Analyzing import statements with LLM..."),
                     error |-> None]

\* the place of a progress text in the order of the phases; the two texts a
\* run ends with have the last place
PhaseRank(progress) ==
    CASE progress.text = "" -> 0
      [] progress.text = "Starting analysis..." -> 1
      [] progress.text = "Scanning repositories: " -> 2
      [] progress.text = "Matching code dependencies..." -> 3
      [] progress.text = "Analyzing import statements with LLM..." -> 4
      [] progress.text = "Running LLM semantic analysis..." -> 5
      [] progress.text = "Merging results..." -> 6
      [] progress.text = "Analysis complete. Found relationships: " -> 7
      [] progress.text = "No indexed projects found" -> 7

\* request r's call passes the guard in this step
PassesGuard(r) == rstate[r] = "created" /\ rstate'[r] \notin {"created", "rejected"}

\* C29: while a run is in flight the progress never moves back in the order
\* of the phases, the flag is set and the progress is the phase the run is
\* in; a call that passes the guard clears the error of the run before it;
\* the progress becomes "Analysis complete" only in the step in which
\* save_relations, called with the run's result, comes back, and it counts
\* the edges of that result; a progress of a phase before the last one is
\* shown with the flag clear only after a run that failed, with its error.
C29_ProgressMovesForward ==
    [][ /\ (\A r \in Requests : ~ PassesGuard(r))
           => PhaseRank(status'.progress) >= PhaseRank(status.progress)
        /\ \A r \in Requests :
              /\ rstate'[r] \in InFlight
                 => /\ status'.running
                    /\ status'.error = None
                    /\ PhaseRank(status'.progress)
                         = (CASE rstate'[r] = "await_import" -> 4
                              [] rstate'[r] = "await_semantic" -> 5
                              [] rstate'[r] = "saving" ->
                                    IF locals'[r].indexed = <<>> THEN 7 ELSE 6)
              /\ PassesGuard(r)
                 => \/ status'.error = None
                    \/ rstate'[r] = "raised" /\ status'.error = Some(outcome'[r].msg)
        /\ ( /\ status'.progress # status.progress
             /\ status'.progress.text = "Analysis complete. Found relationships: " )
           => \E r \in Requests :
                 /\ rstate[r] \in InFlight \cup {"created"}
                 /\ rstate'[r] = "returned"
                 /\ status'.progress.n = Len(outcome'[r].result.edges)
                 /\ file' \in {Json(outcome'[r].result), Torn, file}
        /\ (~ status'.running /\ PhaseRank(status'.progress) \in 1..6)
           => status'.error # None
      ]_vars

\* C29 witness: a run that went through both LLM layers and the save has
\* ended with the progress "Analysis complete" after an earlier run had failed
C29_Witness ==
    \E r \in ReturnedRuns :
        /\ RaisedRuns # {}
        /\ outcome[r].llm_errors = 0
        /\ Len(outcome[r].batches) = 1
        /\ status = [running |-> FALSE,
                     progress |-> ProgressN("Analysis complete. Found relationships: ",
                                            Len(outcome[r].result.edges)),
                     error |-> None]
        /\ file = Json(outcome[r].result)

\* the last run that returned found no repository to analyze and no
\* save_relations is under way
NothingEligibleLast ==
    /\ LoopIdle
    /\ ReturnedRuns # {}
    /\ IndexedPaths(outcome[LastReturned].indexed) = {}

====
